---- MODULE Spec2Model ----
(***************************************************************************)
(* A model of the RAG chat analyst: the HTTP service of src/server.py      *)
(* (startup_event, query_chatbot) and the interactive loop of              *)
(* src/rag_chatbot.py (run_chatbot).  The PDF parser, the vector store,     *)
(* the embedding service and the language model are external: their        *)
(* outcomes are nondeterministic choices, their results are values the      *)
(* handlers only pass along.                                                *)
(*                                                                         *)
(* Spec    : the HTTP service, with concurrent POST /query requests that    *)
(*           interleave at the suspension points of the awaited chain call. *)
(* SpecCli : the interactive loop, reading a finite standard input.         *)
(***************************************************************************)
EXTENDS Integers, Sequences, FiniteSets, TLC

VARIABLES
    pdf,          \* what PDF_PATH resolves to on disk
    chat_rag_db,  \* the entries persisted under VECTOR_DB_PATH
    RAG_CHAIN,    \* server.py: the module-level chain handle
    server,       \* "booting", "ready" or "failed": where startup_event is
    docs,         \* the Document list load_documents returned
    pc,           \* per request: "idle", "retrieve", "generate", "done"
    query,        \* per request: request.query
    seen,         \* per request: RAG_CHAIN as the readiness check read it
    ctx,          \* per call frame: the chain's "context" (retrieved chunks)
    prompt,       \* per request: what the document chain gave the model
    failure,      \* per request: the exception the chain call raised
    resp,         \* per request: the HTTP response (status, body)
    calls,        \* per request: retriever / generator invocations
    stdin,        \* rag_chatbot.py: the input lines not read yet
    cliPc,        \* "setup", "loop" or "ended"
    linesRead,    \* the lines input() has returned
    invocations,  \* the rag_chain.invoke calls made, each with its outcome
    stdout,       \* what the loop printed, as tags
    endCause      \* why the loop ended

vars == <<pdf, chat_rag_db, RAG_CHAIN, server, docs, pc, query, seen, ctx, prompt,
          failure, resp, calls, stdin, cliPc, linesRead, invocations, stdout,
          endCause>>

cliVars == <<stdin, cliPc, linesRead, invocations, stdout, endCause>>

-----------------------------------------------------------------------------
(* Bounds of the model *)

MaxReq == 2      \* POST /query requests in one run
MaxPages == 4    \* pages of the PDF at PDF_PATH
MaxLines == 3    \* lines on standard input

(* Program constants *)

TopK == 4        \* as_retriever(): the retriever's default number of results
SnippetLen == 200  \* doc.page_content[:200]

Requests == 1..MaxReq
Questions == {"What is the new delivery date?", "Does the delay affect the warranty?"}

None == "None"
\* an error response carries a detail string and no answer
NoBody == [detail |-> "error"]

-----------------------------------------------------------------------------
(* Strings, as Python computes on them *)

Min(a, b) == IF a < b THEN a ELSE b

\* s[:n]
Slice(s, n) == SubSeq(s, 1, Min(n, Len(s)))

\* needle in s
Contains(s, needle) ==
    \E i \in 1..(Len(s) - Len(needle) + 1) : SubSeq(s, i, i + Len(needle) - 1) = needle

RECURSIVE Join(_, _)
\* sep.join(parts)
Join(parts, sep) ==
    IF Len(parts) = 0 THEN ""
    ELSE IF Len(parts) = 1 THEN parts[1]
    ELSE parts[1] \o sep \o Join(Tail(parts), sep)

RECURSIVE Rep(_, _)
\* s * n
Rep(s, n) ==
    IF n = 0 THEN ""
    ELSE LET h == Rep(s, n \div 2)
         IN IF n % 2 = 0 THEN h \o h ELSE h \o h \o s

Reverse(s) == [i \in 1..Len(s) |-> s[Len(s) + 1 - i]]

-----------------------------------------------------------------------------
(* Configuration and fallback content of server.py *)

PDF_PATH == "csr_chat_transcript.pdf"

MOCK_CHAT_CONTENT ==
    << "--- CSR Chat Transcript - Order 78901 ---\n",
       "Client: My order 78901 was supposed to arrive today, but the tracking shows 'Delayed'. What is the new estimated delivery date (EDD)?",
       "CSR: I apologize for the delay. Order 78901 for the Nebula 5000 is currently stuck in transit at the Chicago hub due to weather. The revised EDD is now Saturday, 3 days from now.",
       "Client: Is there any way to expedite it? I need it for a presentation on Friday.",
       "CSR: Unfortunately, standard shipping cannot be expedited once in this stage. However, I can offer you a 15% discount on your next accessory purchase as compensation for the inconvenience.",
       "Client: What about the warranty? Does this delay affect the 1-year guarantee I purchased?",
       "CSR: Not at all. The 1-year guarantee starts upon successful delivery, which will be Saturday. I have documented the delay under ticket #RAG-2025." >>

Document(text, metadata) == [page_content |-> text, metadata |-> metadata]

-----------------------------------------------------------------------------
(* The file at PDF_PATH and what PyPDFLoader makes of it *)

\* The file is missing, exists but does not parse, or parses into n pages.
PdfStates ==
    {[kind |-> "missing", pages |-> 0], [kind |-> "corrupt", pages |-> 0]}
        \cup {[kind |-> "pdf", pages |-> n] : n \in 0..MaxPages}

Digit(p) == SubSeq("0123456789", (p % 10) + 1, (p % 10) + 1)

\* The text of page p: texts of 199, 200 and 201 characters and shorter ones,
\* each opening with its page number.
PageText(p) ==
    CASE p = 1 -> Digit(p) \o Rep("a", SnippetLen - 2)
      [] p = 2 -> Digit(p) \o Rep("b", SnippetLen - 1)
      [] p = 3 -> Digit(p) \o Rep("c", SnippetLen)
      [] OTHER -> Digit(p) \o " short page"

\* PyPDFLoader(path).load(): one Document per page, tagged with source and page.
PyPDFLoader_load(path, file) ==
    [p \in 1..file.pages |->
        Document(PageText(p), [source |-> path, page |-> p - 1])]

\* os.path.exists(path)
path_exists(file) == file.kind # "missing"

load_documents(path, file) ==
    IF path_exists(file)
    THEN IF file.kind = "corrupt"
         THEN << Document(Join(MOCK_CHAT_CONTENT, "\n"),
                          [source |-> "mock_chat_transcript_fallback"]) >>
         ELSE PyPDFLoader_load(path, file)
    ELSE << Document(Join(MOCK_CHAT_CONTENT, "\n"),
                     [source |-> "mock_chat_transcript_missing"]) >>

\* RecursiveCharacterTextSplitter(chunk_size=1000, chunk_overlap=200)
\* .split_documents(docs), on documents no longer than chunk_size: each is one
\* chunk with the document's text and metadata.
split_documents(ds) == ds

\* Entries another run or tool may have left under VECTOR_DB_PATH: none, or
\* one entry whose metadata carries no source label.
StoredBefore ==
    { <<>>, << Document("an older entry of the store", [page |-> 7]) >> }

-----------------------------------------------------------------------------
(* The retrieval chain built by setup_rag_system *)

\* The store's similarity order for a question: a fixed order per question,
\* different for different questions.
similarity_order(store, q) ==
    IF q = "What is the new delivery date?" THEN store ELSE Reverse(store)

\* vector_store.as_retriever(): the TopK most similar entries, in order.
retriever(store, q) ==
    SubSeq(similarity_order(store, q), 1, Min(TopK, Len(store)))

\* create_stuff_documents_chain(llm, prompt): the prompt's {input} and {context}.
document_chain_prompt(q, context) == [input |-> q, context |-> context]

\* The language model, as a function of the prompt it is given.
llm(p) == << "answer", p.input, [i \in 1..Len(p.context) |-> p.context[i].page_content] >>

FirstStepGenerate == "generate"

\* create_retrieval_chain(retriever, document_chain): retrieval runs first.
FirstStep == "retrieve"

\* The failures a call to the embedding or model service raises, with str(e).
Failures ==
    { [kind |-> "connection",
       text |-> "Error raised by inference endpoint: HTTPConnectionPool(host='localhost', port=11434): Max retries exceeded with url: /api/embeddings (Caused by NewConnectionError)"],
      [kind |-> "connection",
       text |-> "('Connection aborted.', RemoteDisconnected('Remote end closed connection without response'))"],
      [kind |-> "other",
       text |-> "Ollama call failed with status code 404."] }

NoFailure == [kind |-> "none", text |-> ""]

\* None.ainvoke(...)
AttributeError == [kind |-> "other", text |-> "'NoneType' object has no attribute 'ainvoke'"]

-----------------------------------------------------------------------------
(* server.py: startup_event and query_chatbot *)

NotReadyNever(chain) == FALSE

\* if RAG_CHAIN is None
NotReady(chain) == chain = None

HTTPException(code) == [status |-> code, body |-> NoBody]

HandleExceptionPartial(e) ==
    [status |-> 200, body |-> [answer |-> "", sources |-> <<>>, context_snippets |-> <<>>]]

\* except Exception as e: 504 on the two connection texts, else 500
HandleException(e) ==
    IF Contains(e.text, "ConnectionError") \/ Contains(e.text, "Max retries exceeded")
    THEN HTTPException(504)
    ELSE HTTPException(500)

\* doc.metadata.get('source', 'Unknown')
SourceLabel(doc) ==
    IF "source" \in DOMAIN doc.metadata THEN doc.metadata["source"] ELSE "Unknown"

SnippetNoEllipsisWhenShort(doc) ==
    IF Len(doc.page_content) > SnippetLen
    THEN Slice(doc.page_content, SnippetLen) \o "..."
    ELSE doc.page_content

\* doc.page_content[:200] + "..."
Snippet(doc) == Slice(doc.page_content, SnippetLen) \o "..."

\* the dict query_chatbot returns, as the 200 response
FormatResponse(response) ==
    [status |-> 200,
     body |-> [answer |-> response.answer,
               sources |-> [i \in 1..Len(response.context) |->
                               SourceLabel(response.context[i])],
               context_snippets |-> [i \in 1..Len(response.context) |->
                               Snippet(response.context[i])]]]

FrameShared(r) == 1

\* The locals of one call of the handler and of the chain belong to that call.
Frame(r) == r

NoResp == [status |-> 0, body |-> NoBody]
NoPrompt == [input |-> "", context |-> <<>>]

InitServer ==
    /\ RAG_CHAIN = None
    /\ server = "booting"
    /\ pc = [r \in Requests |-> "idle"]
    /\ query = [r \in Requests |-> ""]
    /\ seen = [r \in Requests |-> "unread"]
    /\ ctx = [r \in Requests |-> <<>>]
    /\ prompt = [r \in Requests |-> NoPrompt]
    /\ failure = [r \in Requests |-> NoFailure]
    /\ resp = [r \in Requests |-> NoResp]
    /\ calls = [r \in Requests |-> [retrieve |-> 0, generate |-> 0]]

InitCliIdle ==
    /\ stdin = <<>>
    /\ cliPc = "setup"
    /\ linesRead = <<>>
    /\ invocations = <<>>
    /\ stdout = <<>>
    /\ endCause = "none"

Init ==
    /\ pdf \in PdfStates
    /\ chat_rag_db \in StoredBefore
    /\ docs = <<>>
    /\ InitServer
    /\ InitCliIdle

\* startup_event: setup_rag_system() loads, splits, embeds and stores the
\* chunks and builds the chain; any failure leaves RAG_CHAIN unset.
startup_event ==
    /\ server = "booting"
    /\ docs' = load_documents(PDF_PATH, pdf)
    /\ \E ok \in BOOLEAN :
          IF ok
          THEN /\ chat_rag_db' = chat_rag_db \o split_documents(docs')
               /\ RAG_CHAIN' = "retrieval_chain"
               /\ server' = "ready"
          ELSE /\ server' = "failed"
               /\ UNCHANGED <<chat_rag_db, RAG_CHAIN>>
    /\ UNCHANGED <<pdf, pc, query, seen, ctx, prompt, failure, resp, calls>>
    /\ UNCHANGED cliVars

\* query_chatbot, up to the await: the readiness check.
QueryStart(r) ==
    /\ pc[r] = "idle"
    /\ \E q \in Questions :
          /\ query' = [query EXCEPT ![r] = q]
          /\ seen' = [seen EXCEPT ![r] = RAG_CHAIN]
          /\ IF NotReady(RAG_CHAIN)
             THEN /\ resp' = [resp EXCEPT ![r] = HTTPException(503)]
                  /\ pc' = [pc EXCEPT ![r] = "done"]
             ELSE /\ pc' = [pc EXCEPT ![r] = FirstStep]
                  /\ UNCHANGED resp
    /\ UNCHANGED <<pdf, chat_rag_db, RAG_CHAIN, server, docs, ctx, prompt, failure, calls>>
    /\ UNCHANGED cliVars

\* The chain's first step: embed the question and query the store.
RetrieveStep(r) ==
    /\ pc[r] = "retrieve"
    /\ calls' = [calls EXCEPT ![r].retrieve = IF RAG_CHAIN = None THEN @ ELSE @ + 1]
    /\ \E out \in {NoFailure} \cup Failures :
          LET e == IF RAG_CHAIN = None THEN AttributeError ELSE out
          IN IF e = NoFailure
             THEN /\ ctx' = [ctx EXCEPT ![Frame(r)] = retriever(chat_rag_db, query[r])]
                  /\ pc' = [pc EXCEPT ![r] = "generate"]
                  /\ UNCHANGED <<failure, resp>>
             ELSE /\ failure' = [failure EXCEPT ![r] = e]
                  /\ resp' = [resp EXCEPT ![r] = HandleException(e)]
                  /\ pc' = [pc EXCEPT ![r] = "done"]
                  /\ UNCHANGED ctx
    /\ UNCHANGED <<pdf, chat_rag_db, RAG_CHAIN, server, docs, query, seen, prompt>>
    /\ UNCHANGED cliVars

\* The chain's second step and the rest of the handler: the model answers
\* from the prompt, the handler formats the response.
GenerateStep(r) ==
    /\ pc[r] = "generate"
    /\ calls' = [calls EXCEPT ![r].generate = IF RAG_CHAIN = None THEN @ ELSE @ + 1]
    /\ prompt' = [prompt EXCEPT ![r] = document_chain_prompt(query[r], ctx[Frame(r)])]
    /\ \E out \in {NoFailure} \cup Failures :
          LET e == IF RAG_CHAIN = None THEN AttributeError ELSE out
              response == [input |-> query[r],
                           context |-> ctx[Frame(r)],
                           answer |-> llm(prompt'[r])]
          IN IF e = NoFailure
             THEN /\ resp' = [resp EXCEPT ![r] = FormatResponse(response)]
                  /\ UNCHANGED failure
             ELSE /\ failure' = [failure EXCEPT ![r] = e]
                  /\ resp' = [resp EXCEPT ![r] = HandleException(e)]
    /\ pc' = [pc EXCEPT ![r] = "done"]
    /\ UNCHANGED <<pdf, chat_rag_db, RAG_CHAIN, server, docs, query, seen, ctx>>
    /\ UNCHANGED cliVars

Next ==
    \/ startup_event
    \/ \E r \in Requests : QueryStart(r)
    \/ \E r \in Requests : RetrieveStep(r)
    \/ \E r \in Requests : GenerateStep(r)

Spec == Init /\ [][Next]_vars

-----------------------------------------------------------------------------
(* rag_chatbot.py: load_documents, the main block and run_chatbot *)

\* rag_chatbot.py appends two more turns to the fallback transcript.
CLI_MOCK_CHAT_CONTENT ==
    MOCK_CHAT_CONTENT \o
    << "Client: That 15% offer sounds fair. Please apply it to my account. Thank you.",
       "CSR: You are welcome. The 15% coupon is now active on your account under the name 'COMP-78901'. Have a great day." >>

\* rag_chatbot.py: load_documents, with one label for both fallbacks
cli_load_documents(path, file) ==
    IF path_exists(file)
    THEN IF file.kind = "corrupt"
         THEN << Document(Join(CLI_MOCK_CHAT_CONTENT, "\n"),
                          [source |-> "mock_chat_transcript"]) >>
         ELSE PyPDFLoader_load(path, file)
    ELSE << Document(Join(CLI_MOCK_CHAT_CONTENT, "\n"),
                     [source |-> "mock_chat_transcript"]) >>

UpperLetters == "ABCDEFGHIJKLMNOPQRSTUVWXYZ"
LowerLetters == "abcdefghijklmnopqrstuvwxyz"

LowerChar(c) ==
    IF \E i \in 1..Len(UpperLetters) : SubSeq(UpperLetters, i, i) = c
    THEN LET i == CHOOSE j \in 1..Len(UpperLetters) : SubSeq(UpperLetters, j, j) = c
         IN SubSeq(LowerLetters, i, i)
    ELSE c

RECURSIVE Lower(_)
\* s.lower()
Lower(s) ==
    IF Len(s) = 0 THEN ""
    ELSE LowerChar(SubSeq(s, 1, 1)) \o Lower(SubSeq(s, 2, Len(s)))

\* the whitespace characters of the input lines drawn
Whitespace == {" ", "\t"}

RECURSIVE LStrip(_)
LStrip(s) ==
    IF Len(s) > 0 /\ SubSeq(s, 1, 1) \in Whitespace
    THEN LStrip(SubSeq(s, 2, Len(s)))
    ELSE s

RECURSIVE RStrip(_)
RStrip(s) ==
    IF Len(s) > 0 /\ SubSeq(s, Len(s), Len(s)) \in Whitespace
    THEN RStrip(SubSeq(s, 1, Len(s) - 1))
    ELSE s

\* s.strip()
Strip(s) == RStrip(LStrip(s))

IsTerminatorCaseSensitive(s) == s \in {"exit", "quit"}

\* user_input.lower() in ["exit", "quit"]
IsTerminator(s) == Lower(s) \in {"exit", "quit"}

IsBlankInputNoStrip(s) == Len(s) = 0

\* not user_input.strip()
IsBlankInput(s) == Len(Strip(s)) = 0

AfterFailureContinue == "loop"

\* except Exception: ... break
AfterFailure == "ended"

\* The lines a user types or a pipe delivers.
InputLines ==
    { "", " \t ", "exit", "QuIt", " exit ", "Exit now", "What is the EDD?" }

RECURSIVE SeqsUpTo(_, _)
\* the sequences over S of length at most n
SeqsUpTo(S, n) ==
    IF n = 0 THEN { <<>> }
    ELSE LET shorter == SeqsUpTo(S, n - 1)
         IN shorter \cup { Append(q, x) : q \in shorter, x \in S }

InitCli ==
    /\ pdf \in PdfStates
    /\ chat_rag_db = <<>>
    /\ docs = <<>>
    /\ InitServer
    /\ stdin \in SeqsUpTo(InputLines, MaxLines)
    /\ cliPc = "setup"
    /\ linesRead = <<>>
    /\ invocations = <<>>
    /\ stdout = <<>>
    /\ endCause = "none"

\* The main block: setup_rag_system(), then run_chatbot(rag_chain); a failed
\* setup prints the critical error and the program ends.
cli_main_setup ==
    /\ cliPc = "setup"
    /\ docs' = cli_load_documents(PDF_PATH, pdf)
    /\ \E ok \in BOOLEAN :
          IF ok
          THEN /\ cliPc' = "loop"
               /\ stdout' = Append(stdout, "banner")
               /\ UNCHANGED endCause
          ELSE /\ cliPc' = "ended"
               /\ stdout' = Append(stdout, "critical")
               /\ endCause' = "init"
    /\ UNCHANGED <<pdf, chat_rag_db, stdin, linesRead, invocations>>
    /\ UNCHANGED <<RAG_CHAIN, server, pc, query, seen, ctx, prompt, failure, resp, calls>>

\* One pass of the while loop of run_chatbot.
run_chatbot ==
    /\ cliPc = "loop"
    /\ IF stdin = <<>>
       THEN \* input() raises EOFError, which the except clause catches
            /\ stdout' = Append(stdout, "error")
            /\ cliPc' = "ended"
            /\ endCause' = "eof"
            /\ UNCHANGED <<stdin, linesRead, invocations>>
       ELSE LET user_input == Head(stdin)
            IN /\ stdin' = Tail(stdin)
               /\ linesRead' = Append(linesRead, user_input)
               /\ IF IsTerminator(user_input)
                  THEN /\ stdout' = Append(stdout, "goodbye")
                       /\ cliPc' = "ended"
                       /\ endCause' = "token"
                       /\ UNCHANGED invocations
                  ELSE IF IsBlankInput(user_input)
                  THEN UNCHANGED <<stdout, cliPc, endCause, invocations>>
                  ELSE \E ok \in BOOLEAN :
                          /\ invocations' =
                                Append(invocations, [input |-> user_input, ok |-> ok])
                          /\ IF ok
                             THEN /\ stdout' = stdout \o <<"thinking", "response">>
                                  /\ UNCHANGED <<cliPc, endCause>>
                             ELSE /\ stdout' = stdout \o <<"thinking", "error">>
                                  /\ cliPc' = AfterFailure
                                  /\ endCause' = "failure"
    /\ UNCHANGED <<pdf, chat_rag_db, docs>>
    /\ UNCHANGED <<RAG_CHAIN, server, pc, query, seen, ctx, prompt, failure, resp, calls>>

NextCli ==
    \/ cli_main_setup
    \/ run_chatbot

SpecCli == InitCli /\ [][NextCli]_vars

-----------------------------------------------------------------------------
(* Claims about the HTTP service, checked under Spec *)

Done(r) == pc[r] = "done"

\* C1: a POST /query handled while the chain is set answers 504 when the chain
\* call fails with a connection failure to the model or embedding service and
\* 500 when it fails otherwise; a request handled while the chain is unset
\* answers 503; no failure of one kind is reported under the other status.
C1_StatusFollowsFailureKind ==
    \A r \in Requests :
        Done(r) =>
            /\ (seen[r] = None => resp[r].status = 503)
            /\ (failure[r].kind = "connection" => resp[r].status = 504)
            /\ (failure[r].kind = "other" => resp[r].status = 500)

\* C2: load_documents returns a non-empty Document list for every file state,
\* and exactly one Document of the fallback text, labelled as fallback content,
\* when the file is missing or does not parse.
C2_LoadAlwaysYieldsDocuments ==
    server # "booting" =>
        /\ Len(docs) >= 1
        /\ (pdf.kind \in {"missing", "corrupt"} =>
               /\ Len(docs) = 1
               /\ docs[1].page_content = Join(MOCK_CHAT_CONTENT, "\n")
               /\ Contains(docs[1].metadata["source"], "mock_chat_transcript"))

\* What the chain retrieves and answers for a question asked on its own.
AloneContext(q) == SubSeq(similarity_order(chat_rag_db, q), 1, Min(TopK, Len(chat_rag_db)))
AloneAnswer(q) ==
    << "answer", q, [i \in 1..Len(AloneContext(q)) |-> AloneContext(q)[i].page_content] >>

\* C3: no partial answers.  A 200 response is produced only when the retrieve
\* step and the generate step of that call both ran and neither failed, and it
\* carries the full answer with one source per retrieved chunk; whenever a step
\* fails the response is an error status with no answer body.
C3_NoPartialAnswers ==
    \A r \in Requests :
        /\ (resp[r].status = 200 =>
               /\ calls[r] = [retrieve |-> 1, generate |-> 1]
               /\ failure[r] = NoFailure
               /\ resp[r].body # NoBody
               /\ resp[r].body.answer = AloneAnswer(query[r])
               /\ Len(resp[r].body.sources) = Len(AloneContext(query[r]))
               /\ Len(resp[r].body.context_snippets) = Len(AloneContext(query[r])))
        /\ (failure[r] # NoFailure =>
               /\ resp[r].status \in {500, 504}
               /\ resp[r].body = NoBody)

\* C3 witness: one request answered with 200 after both steps, another whose
\* generate step failed after its retrieval succeeded.
C3_Witness ==
    \E r1, r2 \in Requests :
        /\ resp[r1].status = 200
        /\ Len(resp[r1].body.sources) >= 1
        /\ failure[r2] # NoFailure
        /\ calls[r2] = [retrieve |-> 1, generate |-> 1]

\* C4: the chain is initialised at most once, by startup; a query handled while
\* RAG_CHAIN is unset is answered 503 without any retrieval or generation; and
\* once initialisation has failed no request is ever answered 200.
C4_InitOnceAndNotReady ==
    [][ /\ (RAG_CHAIN' # RAG_CHAIN => server = "booting" /\ server' = "ready")
        /\ (server # "booting" => server' = server)
        /\ \A r \in Requests :
              seen'[r] = None =>
                  /\ resp'[r].status = 503
                  /\ calls'[r] = [retrieve |-> 0, generate |-> 0]
        /\ (server' = "failed" => \A r \in Requests : resp'[r].status # 200)
      ]_vars

\* C4 witness: initialisation failed and a query was answered not-ready.
C4_Witness ==
    /\ server = "failed"
    /\ \E r \in Requests : Done(r) /\ seen[r] = None /\ resp[r].status = 503

\* C5: under any interleaving of requests, each 200 response equals the
\* response the same question gets when asked alone, and a step of a request
\* writes neither the chain handle, nor the store, nor anything of another
\* request.
C5_RequestsIndependent ==
    [][ \A r \in Requests :
          /\ (resp'[r].status = 200 =>
                 /\ resp'[r].body.answer = AloneAnswer(query'[r])
                 /\ resp'[r].body.sources =
                        [i \in 1..Len(AloneContext(query'[r])) |->
                            IF "source" \in DOMAIN AloneContext(query'[r])[i].metadata
                            THEN AloneContext(query'[r])[i].metadata["source"]
                            ELSE "Unknown"]
                 /\ resp'[r].body.context_snippets =
                        [i \in 1..Len(AloneContext(query'[r])) |->
                            Slice(AloneContext(query'[r])[i].page_content, 200) \o "..."])
          /\ (pc'[r] # pc[r] =>
                 /\ RAG_CHAIN' = RAG_CHAIN
                 /\ chat_rag_db' = chat_rag_db
                 /\ \A o \in Requests \ {r} :
                        /\ query'[o] = query[o]
                        /\ ctx'[o] = ctx[o]
                        /\ prompt'[o] = prompt[o]
                        /\ resp'[o] = resp[o])
      ]_vars

\* C5 witness: two requests with different questions, both answered 200 from
\* different contexts.
C5_Witness ==
    \E r1, r2 \in Requests :
        /\ query[r1] # query[r2]
        /\ resp[r1].status = 200
        /\ resp[r2].status = 200
        /\ resp[r1].body.context_snippets # resp[r2].body.context_snippets

\* C9: each chain call runs START -> RETRIEVE -> GENERATE -> DONE.  Generation
\* starts only after the retrieval of the same call completed; the context
\* given to generation is exactly what the store returns for that call's
\* question; the sources returned are those of the same chunks; nothing an
\* earlier call set changes what a later call retrieves or is given.
C9_CallStateMachine ==
    [][ \A r \in Requests :
          /\ (pc[r] = "idle" /\ pc'[r] # "idle" =>
                 \/ pc'[r] = "retrieve"
                 \/ pc'[r] = "done" /\ seen'[r] = None)
          /\ (pc[r] = "retrieve" /\ pc'[r] # "retrieve" =>
                 \/ pc'[r] = "generate" /\ ctx'[r] = AloneContext(query[r])
                 \/ pc'[r] = "done" /\ failure'[r] # NoFailure)
          /\ (calls'[r].generate # calls[r].generate =>
                 /\ pc[r] = "generate"
                 /\ pc'[r] = "done"
                 /\ calls[r].retrieve = 1
                 /\ prompt'[r].input = query[r]
                 /\ prompt'[r].context = AloneContext(query[r]))
          /\ (pc[r] = "done" => pc'[r] = "done")
      ]_vars

\* C9 witness: a call completed after retrieving several chunks, and a later
\* call with the other question is in its generate step.
C9_Witness ==
    \E r1, r2 \in Requests :
        /\ resp[r1].status = 200
        /\ Len(prompt[r1].context) >= 2
        /\ pc[r2] = "generate"
        /\ query[r2] # query[r1]

\* C10: in every 200 response, sources and context_snippets have the length of
\* the retrieved chunk sequence, at most top-K, in its order: sources[i] is the
\* i-th chunk's source label, 'Unknown' when it has none, and
\* context_snippets[i] is the first 200 characters of its text followed by
\* '...', also when the text is shorter than 200 characters.
C10_SourcesAndSnippets ==
    \A r \in Requests :
        resp[r].status = 200 =>
            LET c == ctx[r]
                b == resp[r].body
            IN /\ Len(c) <= TopK
               /\ Len(b.sources) = Len(c)
               /\ Len(b.context_snippets) = Len(c)
               /\ \A i \in 1..Len(c) :
                     LET t == c[i].page_content
                     IN /\ b.sources[i] =
                              (IF "source" \in DOMAIN c[i].metadata
                               THEN c[i].metadata["source"] ELSE "Unknown")
                        /\ b.context_snippets[i] =
                              (IF Len(t) <= 200 THEN t ELSE SubSeq(t, 1, 200)) \o "..."
                        /\ Len(b.context_snippets[i]) = Min(Len(t), 200) + 3

\* C10 witness: a 200 response over top-K chunks, among them one without a
\* source label, one shorter than 200 characters and one longer.
C10_Witness ==
    \E r \in Requests :
        /\ resp[r].status = 200
        /\ Len(ctx[r]) = TopK
        /\ \E i \in 1..TopK : "source" \notin DOMAIN ctx[r][i].metadata
        /\ \E i \in 1..TopK : Len(ctx[r][i].page_content) < 200
        /\ \E i \in 1..TopK : Len(ctx[r][i].page_content) > 200

-----------------------------------------------------------------------------
(* Claims about the interactive loop, checked under SpecCli *)

\* A line that is empty or holds whitespace only.
BlankLine(l) == \A i \in 1..Len(l) : SubSeq(l, i, i) \in {" ", "\t"}

SameLetters(l, low, up) ==
    /\ Len(l) = Len(low)
    /\ \A i \in 1..Len(low) : SubSeq(l, i, i) \in {SubSeq(low, i, i), SubSeq(up, i, i)}

\* A line equal to exit or quit in any letter case.
TokenLine(l) == SameLetters(l, "exit", "EXIT") \/ SameLetters(l, "quit", "QUIT")

\* The lines read that are neither blank nor a termination token, in order.
QueryLines == SelectSeq(linesRead, LAMBDA l : ~BlankLine(l) /\ ~TokenLine(l))

LastOf(q) == q[Len(q)]

\* C6: blank lines re-prompt without invoking the chain: the invocations made
\* are as many as the lines read that are neither blank nor a termination
\* token, and no blank line is among their inputs.
C6_BlankLinesNotInvoked ==
    /\ Len(invocations) = Len(QueryLines)
    /\ \A i \in 1..Len(invocations) : ~BlankLine(invocations[i].input)

\* C6 witness: a whitespace-only, non-empty line was read, the loop went on to
\* read a later line, and a query was invoked.
C6_Witness ==
    /\ \E i \in 1..Len(linesRead) :
          /\ i < Len(linesRead)
          /\ Len(linesRead[i]) > 0
          /\ BlankLine(linesRead[i])
    /\ Len(invocations) >= 1

\* C7: a failed invoke prints the diagnostic and ends the loop: the failed
\* invocation is the last one, and after it no line is read and no invocation
\* is made.
C7_FailureEndsLoop ==
    [][ /\ (Len(invocations') > Len(invocations) /\ ~LastOf(invocations').ok =>
               /\ cliPc' = "ended"
               /\ LastOf(stdout') = "error")
        /\ ((Len(invocations) > 0 /\ ~LastOf(invocations).ok) =>
               /\ linesRead' = linesRead
               /\ invocations' = invocations
               /\ stdin' = stdin)
      ]_vars

\* C7 witness: a query failed after an earlier one succeeded, with input left
\* unread.
C7_Witness ==
    /\ Len(invocations) >= 2
    /\ ~LastOf(invocations).ok
    /\ stdin # <<>>
    /\ cliPc = "ended"

EndedByToken == Len(linesRead) > 0 /\ TokenLine(LastOf(linesRead))
EndedByFailure == Len(invocations) > 0 /\ ~LastOf(invocations).ok
LoopEnded == cliPc = "ended" /\ endCause # "init"

\* Termination tokens end the loop uninvoked; every other non-blank line read
\* is passed to the chain unchanged.
TokensAndQueries ==
    /\ \A i \in 1..Len(linesRead) :
          TokenLine(linesRead[i]) => i = Len(linesRead) /\ cliPc = "ended"
    /\ [i \in 1..Len(invocations) |-> invocations[i].input] = QueryLines

\* C8, as stated: a line equal to exit or quit in any letter case ends the loop
\* without an invocation for it, the loop ends only on such a line or on a
\* failed invocation, and every other non-blank line is passed to the chain.
C8_EndsOnlyOnTokenOrFailure ==
    /\ TokensAndQueries
    /\ (LoopEnded => EndedByToken \/ EndedByFailure)

\* C8, amended: the loop ends only on such a line, on a failed invocation, or
\* when reading the next line fails at the end of the input, which prints the
\* same diagnostic.
C8_EndsOnTokenFailureOrEndOfInput ==
    /\ TokensAndQueries
    /\ (LoopEnded =>
           \/ EndedByToken
           \/ EndedByFailure
           \/ stdin = <<>> /\ LastOf(stdout) = "error")
    /\ (cliPc = "loop" => ~EndedByToken /\ ~EndedByFailure)

\* C8 witness: a mixed-case token ended the loop after a query was invoked,
\* with input left unread.
C8_Witness ==
    /\ cliPc = "ended"
    /\ EndedByToken
    /\ LastOf(linesRead) \notin {"exit", "quit"}
    /\ Len(invocations) >= 1
    /\ stdin # <<>>

====
